---- MODULE Spec2Model ----
(***************************************************************************)
(* A model of src/.proxy/anthropic-proxy.py: the reverse proxy that relays *)
(* GET/POST requests to the fixed upstream host, injecting the x-api-key   *)
(* header, and relays the response back (streamed or buffered).            *)
(*                                                                         *)
(* Strings whose content matters (header values, the credential, messages, *)
(* log lines) are sequences of tokens; a token is one character or one     *)
(* literal fragment of the source.  Header names are atomic strings with   *)
(* an explicit lower-casing table.                                         *)
(***************************************************************************)
EXTENDS Integers, Sequences, FiniteSets, TLC

VARIABLES
    started,    \* main() has printed the banner and the server is listening
    API_KEY,    \* the configured credential (module constant read at import)
    banner,     \* the lines main() has written to stderr
    log,        \* per unit: the lines the current request has written to stderr
    pc,         \* per unit: position of the per-connection thread
    req,        \* per unit: the parsed inbound request
    body,       \* per unit: local `body` of _proxy_request
    conn,       \* per unit: state of the upstream connection object
    opened,     \* per unit: upstream sockets opened for the current request
    outReq,     \* per unit: the request handed to conn.request, once sent
    resp,       \* per unit: the upstream response (status, headers, body)
    upSent,     \* per unit: body bytes the upstream has sent so far
    upPos,      \* per unit: body bytes the proxy has read so far
    chunk,      \* per unit: the chunk last read and not yet written
    isStream,   \* per unit: local `is_streaming`
    client,     \* per unit: what has been written to the caller, in order
    clientUp,   \* per unit: the caller's socket still accepts writes
    closeConn,  \* per unit: BaseHTTPRequestHandler.close_connection
    exc         \* per unit: the exception that ended the request, if any

vars == <<started, API_KEY, banner, log, pc, req, body, conn, opened, outReq, resp,
          upSent, upPos, chunk, isStream, client, clientUp, closeConn, exc>>

(***************************************************************************)
(* Bounds of the model.                                                    *)
(***************************************************************************)
\* most inbound headers of a request in the header specification
MaxHeaders == 3
\* longest upstream response body, in bytes
MaxBody == 3
\* bytes asked for by one streaming read; the source reads 4096 at a time
\* (line 96), scaled down here together with MaxBody
ChunkSize == 2

Units == {1, 2}

(***************************************************************************)
(* Strings.                                                                *)
(***************************************************************************)
\* Python's `needle in haystack` on strings
IsSub(needle, hay) ==
    \E i \in 0..(Len(hay) - Len(needle)) :
        \A j \in 1..Len(needle) : hay[i + j] = needle[j]

HeaderNames ==
    {"Host", "host", "x-api-key", "X-Api-Key", "Transfer-Encoding",
     "Accept", "accept", "Content-Length", "Content-Type", "content-type",
     "Connection", "X-Request-Id",
     "Access-Control-Allow-Origin", "Access-Control-Allow-Methods",
     "Access-Control-Allow-Headers"}

\* str.lower() on the header names of the model
Lower(name) ==
    CASE name \in {"Host", "host"} -> "host"
      [] name \in {"x-api-key", "X-Api-Key"} -> "x-api-key"
      [] name = "Transfer-Encoding" -> "transfer-encoding"
      [] name \in {"Accept", "accept"} -> "accept"
      [] name = "Content-Length" -> "content-length"
      [] name \in {"Content-Type", "content-type", "CONTENT-TYPE"} -> "content-type"
      [] name \in {"Connection", "CONNECTION"} -> "connection"
      [] name = "X-Request-Id" -> "x-request-id"
      [] name \in {"Server", "server"} -> "server"
      [] name \in {"Date", "date"} -> "date"
      [] name = "X-Content-Type" -> "x-content-type"
      [] name = "Access-Control-Allow-Origin" -> "access-control-allow-origin"
      [] name = "Access-Control-Allow-Methods" -> "access-control-allow-methods"
      [] name = "Access-Control-Allow-Headers" -> "access-control-allow-headers"

ANTHROPIC_HOST == <<"api.anthropic.com">>
PREVIEW_LEN == 12

\* a skip-set that forgets transfer-encoding
SkipOnlyHost == {"host"}

SKIP_REQUEST_HEADERS == {"host", "transfer-encoding"}
SKIP_RESPONSE_HEADERS == {"transfer-encoding", "connection"}

(***************************************************************************)
(* Header containers.  An email.message.Message (self.headers) is a        *)
(* sequence of <<name, value>> pairs, duplicates kept; a dict is such a    *)
(* sequence with pairwise different (case-sensitive) names.                *)
(***************************************************************************)
None == <<>>
Some(v) == <<v>>

\* Message.get(name): the value of the first header matching `name`
\* case-insensitively, None when there is none
RECURSIVE MsgGet(_, _)
MsgGet(hs, name) ==
    IF hs = <<>> THEN None
    ELSE IF Lower(Head(hs)[1]) = Lower(name) THEN Some(Head(hs)[2])
    ELSE MsgGet(Tail(hs), name)

\* truth value of `x` for x a str or None held in an option
Truthy(opt) == opt # None /\ opt[1] # <<>>

\* d[k] = v on a dict: an existing key keeps its position
DictSet(d, k, v) ==
    IF \E i \in 1..Len(d) : d[i][1] = k
    THEN [i \in 1..Len(d) |-> IF d[i][1] = k THEN <<k, v>> ELSE d[i]]
    ELSE Append(d, <<k, v>>)

\* lines 68-70: copy every inbound header not in the skip-set
RECURSIVE CopyRequestHeaders(_, _)
CopyRequestHeaders(d, hs) ==
    IF hs = <<>> THEN d
    ELSE CopyRequestHeaders(
            IF Lower(Head(hs)[1]) \notin SKIP_REQUEST_HEADERS
            THEN DictSet(d, Head(hs)[1], Head(hs)[2])
            ELSE d,
            Tail(hs))

\* an injection that does not look at the credential being set
ShouldInjectAlways(hs, key) == ~Truthy(MsgGet(hs, "x-api-key"))

\* line 65: the condition under which the credential is injected
ShouldInject(hs, key) == key # <<>> /\ ~Truthy(MsgGet(hs, "x-api-key"))

\* the headers built without the injection of lines 65-66
BuildHeadersNoInjection(hs, key) ==
    CopyRequestHeaders(<<<<"Host", ANTHROPIC_HOST>>>>, hs)

\* lines 62-70: the dict handed to conn.request
BuildHeaders(hs, key) ==
    LET h0 == <<<<"Host", ANTHROPIC_HOST>>>>
        h1 == IF ShouldInject(hs, key) THEN DictSet(h0, "x-api-key", key) ELSE h0
    IN  CopyRequestHeaders(h1, hs)

(***************************************************************************)
(* http.client's check of a header value (putheader), and the text of the  *)
(* exception it raises.                                                    *)
(***************************************************************************)
\* a value holding a bare line break is refused by putheader
IllegalHeaderValue(v) == \E i \in 1..Len(v) : v[i] \in {"LF", "CR"}

\* repr() of the value as bytes: line breaks are written as escapes, every
\* other character as itself
Escaped(v) ==
    [i \in 1..Len(v) |->
        IF v[i] = "LF" THEN "\\n" ELSE IF v[i] = "CR" THEN "\\r" ELSE v[i]]

Repr(v) == <<"b'">> \o Escaped(v) \o <<"'">>

\* int(s) for the header values of the model: None stands for ValueError
ParseInt(v) ==
    IF v = <<"0">> THEN Some(0)
    ELSE IF v = <<"1">> THEN Some(1)
    ELSE IF v = <<"2">> THEN Some(2)
    ELSE IF v = <<"3">> THEN Some(3)
    ELSE IF v = <<"4">> THEN Some(4)
    ELSE IF v = <<"5">> THEN Some(5)
    ELSE None

(***************************************************************************)
(* The request target.  A target is a sequence of tokens in which every    *)
(* "/" at its start is a token of its own.                                 *)
(***************************************************************************)
\* str.lstrip('/')
RECURSIVE LStripSlash(_)
LStripSlash(t) ==
    IF t # <<>> /\ Head(t) = "/" THEN LStripSlash(Tail(t)) ELSE t

\* self.path (line 73) as BaseHTTPRequestHandler.parse_request leaves it: a
\* target starting with '//' is reduced to a single leading '/'
SelfPath(t) ==
    IF Len(t) >= 2 /\ t[1] = "/" /\ t[2] = "/"
    THEN <<"/">> \o LStripSlash(t)
    ELSE t

(***************************************************************************)
(* Exceptions: a class and the text str(e) gives.                          *)
(***************************************************************************)
NoExc == [cls |-> "none", text |-> <<>>]
Exc(cls, text) == [cls |-> cls, text |-> text]

\* the classes each exception class derives from, among those the except
\* clauses of _proxy_request name
Bases(cls) ==
    CASE cls = "RemoteDisconnected" -> {"HTTPException", "OSError", "Exception"}
      [] cls = "IncompleteRead" -> {"HTTPException", "Exception"}
      [] cls = "SSLError" -> {"SSLError", "OSError", "Exception"}
      [] cls = "TimeoutError" -> {"TimeoutError", "OSError", "Exception"}
      [] cls = "ConnectionRefusedError" -> {"OSError", "Exception"}
      [] cls = "ConnectionResetError" -> {"OSError", "Exception"}
      [] cls = "BrokenPipeError" -> {"OSError", "Exception"}
      [] cls = "ValueError" -> {"Exception"}

ExcRefused == Exc("ConnectionRefusedError", <<"[Errno 111] Connection refused">>)
ExcReset == Exc("ConnectionResetError", <<"[Errno 104] Connection reset by peer">>)
ExcTimeout == Exc("TimeoutError", <<"timed out">>)
ExcSSL == Exc("SSLError", <<"[SSL: CERTIFICATE_VERIFY_FAILED]">>)
ExcDisconnected ==
    Exc("RemoteDisconnected", <<"Remote end closed connection without response">>)
ExcIncomplete == Exc("IncompleteRead", <<"IncompleteRead">>)
ExcBrokenPipe == Exc("BrokenPipeError", <<"[Errno 32] Broken pipe">>)
ExcBadInt == Exc("ValueError", <<"invalid literal for int() with base 10">>)
ExcBadHeader(v) == Exc("ValueError", <<"Invalid header value ">> \o Repr(v))

\* the except clauses without the one for TimeoutError
ExceptClauseNoTimeout(e) ==
    IF "HTTPException" \in Bases(e.cls)
    THEN [code |-> 502, msg |-> <<"Upstream error: ">> \o e.text]
    ELSE IF "SSLError" \in Bases(e.cls)
    THEN [code |-> 502, msg |-> <<"SSL error: ">> \o e.text]
    ELSE [code |-> 500, msg |-> <<"Proxy error: ">> \o e.text]

\* lines 107-114: the except clauses, tried in order; the status and the
\* message handed to send_error
ExceptClause(e) ==
    IF "HTTPException" \in Bases(e.cls)
    THEN [code |-> 502, msg |-> <<"Upstream error: ">> \o e.text]
    ELSE IF "SSLError" \in Bases(e.cls)
    THEN [code |-> 502, msg |-> <<"SSL error: ">> \o e.text]
    ELSE IF "TimeoutError" \in Bases(e.cls)
    THEN [code |-> 504, msg |-> <<"Upstream timeout">>]
    ELSE [code |-> 500, msg |-> <<"Proxy error: ">> \o e.text]

(***************************************************************************)
(* Logging and what is written to the caller.                              *)
(***************************************************************************)
\* lines 40-42: only the first argument of the format reaches stderr
LogMessage(args) == <<"[anthropic-proxy] ">> \o args[1] \o <<"\n">>

\* self.requestline: the request line as the caller sent it
RequestLine(r) == <<r.method, " ">> \o r.path \o <<" HTTP/1.1">>

\* send_response -> log_request -> log_message('"%s" %s %s', requestline, ...)
LogRequest(r, code) == LogMessage(<<RequestLine(r), <<ToString(code)>>, <<"-">>>>)

\* send_error -> log_error -> log_message("code %d, message %s", code, message)
LogError(code, msg) == LogMessage(<<<<ToString(code)>>, msg>>)

\* items written to the caller: a status line with its header block, a
\* run of body bytes, or the whole response send_error formats
HeadItem(code, headers) ==
    [kind |-> "head", code |-> code, headers |-> headers, data |-> <<>>, msg |-> <<>>]
DataItem(bytes) ==
    [kind |-> "data", code |-> 0, headers |-> <<>>, data |-> bytes, msg |-> <<>>]
ErrorItem(code, msg) ==
    [kind |-> "error", code |-> code, headers |-> <<>>, data |-> <<>>, msg |-> msg]

\* lines 157-167 of main(): the banner line about the credential
KeyPreview(key) ==
    IF Len(key) > PREVIEW_LEN THEN SubSeq(key, 1, PREVIEW_LEN) \o <<"...">> ELSE <<"***">>

Banner(key) ==
    IF key # <<>>
    THEN <<"[anthropic-proxy] API key injection enabled: ">> \o KeyPreview(key)
    ELSE <<"[anthropic-proxy] No API key configured - passthrough mode">>

(***************************************************************************)
(* Response side: lines 79-88.                                             *)
(***************************************************************************)
\* the upstream headers send_header is called with, in upstream order
RECURSIVE FilterResponseHeaders(_)
FilterResponseHeaders(hs) ==
    IF hs = <<>> THEN <<>>
    ELSE IF Lower(Head(hs)[1]) \notin SKIP_RESPONSE_HEADERS
         THEN <<Head(hs)>> \o FilterResponseHeaders(Tail(hs))
         ELSE FilterResponseHeaders(Tail(hs))

\* a detection that compares the name as the upstream spelled it
RECURSIVE DetectStreamingExactName(_)
DetectStreamingExactName(hs) ==
    IF hs = <<>> THEN FALSE
    ELSE \/ /\ Lower(Head(hs)[1]) \notin SKIP_RESPONSE_HEADERS
            /\ Head(hs)[1] = "content-type"
            /\ IsSub(<<"text/event-stream">>, Head(hs)[2])
         \/ DetectStreamingExactName(Tail(hs))

\* is_streaming after the loop over response.getheaders()
RECURSIVE DetectStreaming(_)
DetectStreaming(hs) ==
    IF hs = <<>> THEN FALSE
    ELSE \/ /\ Lower(Head(hs)[1]) \notin SKIP_RESPONSE_HEADERS
            /\ Lower(Head(hs)[1]) = "content-type"
            /\ IsSub(<<"text/event-stream">>, Head(hs)[2])
         \/ DetectStreaming(Tail(hs))

\* send_response (lines 77 and 124) puts two headers of its own after the
\* status line: the server software and the current date
SendResponseHeaders ==
    << <<"Server", <<"BaseHTTP/0.6 Python/3">>>>, <<"Date", <<"now">>>> >>

\* a pre-flight answer that names no methods
CorsHeadersNoMethods ==
    << <<"Access-Control-Allow-Origin", <<"*">>>>,
       <<"Access-Control-Allow-Headers", <<"*">>>> >>

\* lines 125-127: the headers of the pre-flight answer
CorsHeaders ==
    << <<"Access-Control-Allow-Origin", <<"*">>>>,
       <<"Access-Control-Allow-Methods", <<"GET, POST, OPTIONS">>>>,
       <<"Access-Control-Allow-Headers", <<"*">>>> >>

(***************************************************************************)
(* The inputs of the lifecycle specification.                              *)
(***************************************************************************)
LocalHost == <<"Host", <<"localhost:3129">>>>

Requests ==
    { [method |-> "GET", path |-> <<"/", "v1/models">>,
       headers |-> <<LocalHost, <<"Accept", <<"a">>>>>>, payload |-> <<>>],
      [method |-> "POST", path |-> <<"/", "v1/messages", "?beta=true">>,
       headers |-> <<LocalHost, <<"X-Api-Key", <<"a">>>>,
                     <<"Content-Length", <<"2">>>>, <<"Connection", <<"close">>>>>>,
       payload |-> <<10, 20>>],
      [method |-> "POST", path |-> <<"/", "v1/messages">>,
       headers |-> <<LocalHost, <<"Content-Length", <<"a">>>>>>, payload |-> <<>>],
      [method |-> "OPTIONS", path |-> <<"/", "v1/messages">>,
       headers |-> <<LocalHost>>, payload |-> <<>>] }

JsonHeaders ==
    << <<"Content-Type", <<"application/json">>>>, <<"Connection", <<"keep-alive">>>> >>
SseHeaders ==
    << <<"content-type", <<"text/event-stream", "; charset=utf-8">>>>,
       <<"Transfer-Encoding", <<"chunked">>>> >>

Responses ==
    { [status |-> 200, headers |-> hs, len |-> n] :
        hs \in {JsonHeaders, SseHeaders}, n \in 0..MaxBody }

\* credentials: none, one longer than the banner's preview, and one that was
\* set with its trailing line break
NoKey == <<>>
NormalKey == <<"s", "k", "-", "a", "n", "t", "-", "a", "p", "i", "0", "3", "-", "X">>
BrokenKey == <<"s", "k", "-", "1", "LF">>

(***************************************************************************)
(* State.                                                                  *)
(***************************************************************************)
NoReq == [method |-> "", path |-> <<>>, headers |-> <<>>, payload |-> <<>>]
NoResp == [status |-> 0, headers |-> <<>>, len |-> 0]
NoOut == [sent |-> FALSE, method |-> "", path |-> <<>>, headers |-> <<>>, body |-> None]

Upd(f, u, v) == [f EXCEPT ![u] = v]

Min(a, b) == IF a <= b THEN a ELSE b

\* the body of the upstream response: byte i is the number i
BodyBytes(from, to) == [i \in 1..(to - from + 1) |-> from + i - 1]

InitUnits ==
    /\ pc = [u \in Units |-> "idle"]
    /\ log = [u \in Units |-> {}]
    /\ req = [u \in Units |-> NoReq]
    /\ body = [u \in Units |-> None]
    /\ conn = [u \in Units |-> "none"]
    /\ opened = [u \in Units |-> 0]
    /\ outReq = [u \in Units |-> NoOut]
    /\ resp = [u \in Units |-> NoResp]
    /\ upSent = [u \in Units |-> 0]
    /\ upPos = [u \in Units |-> 0]
    /\ chunk = [u \in Units |-> <<>>]
    /\ isStream = [u \in Units |-> FALSE]
    /\ client = [u \in Units |-> <<>>]
    /\ clientUp = [u \in Units |-> FALSE]
    /\ closeConn = [u \in Units |-> FALSE]
    /\ exc = [u \in Units |-> NoExc]

Init ==
    /\ started = FALSE
    /\ API_KEY \in {NormalKey, BrokenKey}
    /\ banner = {}
    /\ InitUnits

reqVars == <<req, body, conn, opened, outReq, resp, upSent, upPos, chunk, isStream>>

\* a handler that keeps its upstream connection for the next request
ResetRequestKeepConn(u) ==
    /\ req' = Upd(req, u, NoReq)
    /\ body' = Upd(body, u, None)
    /\ conn' = conn
    /\ opened' = opened
    /\ outReq' = Upd(outReq, u, NoOut)
    /\ resp' = Upd(resp, u, NoResp)
    /\ upSent' = Upd(upSent, u, 0)
    /\ upPos' = Upd(upPos, u, 0)
    /\ chunk' = Upd(chunk, u, <<>>)
    /\ isStream' = Upd(isStream, u, FALSE)
    /\ client' = Upd(client, u, <<>>)
    /\ exc' = Upd(exc, u, NoExc)

\* the locals of a request are gone once its handler has returned
ResetRequest(u) ==
    /\ req' = Upd(req, u, NoReq)
    /\ body' = Upd(body, u, None)
    /\ conn' = Upd(conn, u, "none")
    /\ opened' = Upd(opened, u, 0)
    /\ outReq' = Upd(outReq, u, NoOut)
    /\ resp' = Upd(resp, u, NoResp)
    /\ upSent' = Upd(upSent, u, 0)
    /\ upPos' = Upd(upPos, u, 0)
    /\ chunk' = Upd(chunk, u, <<>>)
    /\ isStream' = Upd(isStream, u, FALSE)
    /\ client' = Upd(client, u, <<>>)
    /\ exc' = Upd(exc, u, NoExc)

(***************************************************************************)
(* How a request ends in an exception.                                     *)
(***************************************************************************)
\* lines 107-114: the exception is caught and send_error answers.  send_error
\* logs, then writes; with the caller gone its write raises out of the
\* except clause and the exception reaches the thread
Caught(u, e) ==
    LET h == ExceptClause(e) IN
    /\ log' = Upd(log, u, log[u] \cup {LogError(h.code, h.msg), LogRequest(req[u], h.code)})
    /\ closeConn' = Upd(closeConn, u, TRUE)
    /\ IF clientUp[u]
       THEN /\ client' = Upd(client, u, Append(client[u], ErrorItem(h.code, h.msg)))
            /\ pc' = Upd(pc, u, "done")
            /\ exc' = Upd(exc, u, e)
       ELSE /\ client' = client
            /\ pc' = Upd(pc, u, "crashed")
            /\ exc' = Upd(exc, u, Exc("BrokenPipeError",
                            ExcBrokenPipe.text \o <<" while handling: ">> \o e.text))

\* an exception outside the try block, or in do_OPTIONS, reaches the thread
Uncaught(u, e) ==
    /\ pc' = Upd(pc, u, "crashed")
    /\ exc' = Upd(exc, u, e)

(***************************************************************************)
(* Startup and the listener.                                               *)
(***************************************************************************)
\* lines 156-174
Main ==
    /\ ~started
    /\ started' = TRUE
    /\ banner' = {Banner(API_KEY),
                   <<"[anthropic-proxy] Listening on port ">>,
                   <<"[anthropic-proxy] Proxying to ">> \o ANTHROPIC_HOST}
    /\ UNCHANGED <<API_KEY, log, pc, reqVars, client, clientUp, closeConn, exc>>

\* a server without the thread per connection: the next connection is
\* accepted only once the one being handled is over
AcceptSerial(u) ==
    /\ started
    /\ \A v \in Units : pc[v] = "idle"
    /\ pc' = Upd(pc, u, "accepted")
    /\ clientUp' = Upd(clientUp, u, TRUE)
    /\ log' = Upd(log, u, {})
    /\ UNCHANGED <<started, API_KEY, banner, reqVars, client, closeConn, exc>>

\* lines 136-143: a thread of its own for every accepted connection
Accept(u) ==
    /\ started
    /\ pc[u] = "idle"
    /\ pc' = Upd(pc, u, "accepted")
    /\ clientUp' = Upd(clientUp, u, TRUE)
    /\ log' = Upd(log, u, {})
    /\ UNCHANGED <<started, API_KEY, banner, reqVars, client, closeConn, exc>>

\* handle_one_request has parsed a request line and its headers
ReceiveFrom(u, rs) ==
    /\ pc[u] = "accepted"
    /\ clientUp[u]
    /\ \E r \in rs :
        /\ req' = Upd(req, u, r)
        /\ closeConn' = Upd(closeConn, u, MsgGet(r.headers, "Connection") = Some(<<"close">>))
    /\ pc' = Upd(pc, u, "received")
    /\ UNCHANGED <<started, API_KEY, banner, log, body, conn, opened, outReq, resp, upSent,
                   upPos, chunk, isStream, client, clientUp, exc>>

\* the caller goes away: later writes to it raise BrokenPipeError
ClientDrop(u) ==
    /\ pc[u] # "idle"
    /\ clientUp[u]
    /\ clientUp' = Upd(clientUp, u, FALSE)
    /\ UNCHANGED <<started, API_KEY, banner, log, pc, reqVars, client, closeConn, exc>>

\* lines 122-128
DoOptions(u) ==
    /\ pc[u] = "received"
    /\ req[u].method = "OPTIONS"
    /\ log' = Upd(log, u, log[u] \cup {LogRequest(req[u], 200)})
    /\ IF clientUp[u]
       THEN /\ client' = Upd(client, u, Append(client[u],
                            HeadItem(200, SendResponseHeaders \o CorsHeaders)))
            /\ pc' = Upd(pc, u, "done")
            /\ exc' = exc
       ELSE /\ client' = client
            /\ Uncaught(u, ExcBrokenPipe)
    /\ UNCHANGED <<started, API_KEY, banner, reqVars, clientUp, closeConn>>

Receive(u) == ReceiveFrom(u, Requests)

(***************************************************************************)
(* _proxy_request, step by step.                                           *)
(***************************************************************************)
\* lines 47-50: outside the try block
ReadBody(u) ==
    /\ pc[u] = "received"
    /\ req[u].method \in {"GET", "POST"}
    /\ LET cl == MsgGet(req[u].headers, "Content-Length") IN
       IF Truthy(cl)
       THEN IF ParseInt(cl[1]) = None
            THEN /\ Uncaught(u, ExcBadInt)
                 /\ body' = body
            ELSE /\ Len(req[u].payload) >= ParseInt(cl[1])[1] \/ ~clientUp[u]
                 /\ body' = Upd(body, u,
                        Some(SubSeq(req[u].payload, 1,
                                    Min(ParseInt(cl[1])[1], Len(req[u].payload)))))
                 /\ pc' = Upd(pc, u, "build")
                 /\ exc' = exc
       ELSE /\ body' = body
            /\ pc' = Upd(pc, u, "build")
            /\ exc' = exc
    /\ UNCHANGED <<started, API_KEY, banner, log, req, conn, opened, outReq, resp, upSent,
                   upPos, chunk, isStream, client, clientUp, closeConn>>

\* what the upstream side can do to conn.request once the headers are legal
ForwardOutcomes == {"ok", "refused", "connect_timeout", "tls_error", "send_reset"}

\* lines 57-73: create the connection, build the headers, send the request.
\* putheader refuses an illegal value before anything is connected; the TLS
\* socket closes itself when the handshake fails; a failed send leaves the
\* socket of the connection open
Forward(u) ==
    /\ pc[u] = "build"
    /\ LET hdrs == BuildHeaders(req[u].headers, API_KEY)
           bad == {i \in 1..Len(hdrs) : IllegalHeaderValue(hdrs[i][2])}
       IN
       IF bad # {}
       THEN /\ conn' = Upd(conn, u, "unconnected")
            /\ Caught(u, ExcBadHeader(hdrs[CHOOSE i \in bad : \A j \in bad : i <= j][2]))
            /\ UNCHANGED <<opened, outReq>>
       ELSE \E o \in ForwardOutcomes :
            CASE o = "ok" ->
                    /\ conn' = Upd(conn, u, "open")
                    /\ opened' = Upd(opened, u, opened[u] + 1)
                    /\ outReq' = Upd(outReq, u,
                          [sent |-> TRUE, method |-> req[u].method,
                           path |-> SelfPath(req[u].path), headers |-> hdrs,
                           body |-> body[u]])
                    /\ pc' = Upd(pc, u, "sent")
                    /\ UNCHANGED <<log, client, closeConn, exc>>
              [] o = "refused" ->
                    /\ conn' = Upd(conn, u, "unconnected")
                    /\ Caught(u, ExcRefused)
                    /\ UNCHANGED <<opened, outReq>>
              [] o = "connect_timeout" ->
                    /\ conn' = Upd(conn, u, "unconnected")
                    /\ Caught(u, ExcTimeout)
                    /\ UNCHANGED <<opened, outReq>>
              [] o = "tls_error" ->
                    /\ conn' = Upd(conn, u, "closed")
                    /\ opened' = Upd(opened, u, opened[u] + 1)
                    /\ Caught(u, ExcSSL)
                    /\ UNCHANGED outReq
              [] o = "send_reset" ->
                    /\ conn' = Upd(conn, u, "open")
                    /\ opened' = Upd(opened, u, opened[u] + 1)
                    /\ Caught(u, ExcReset)
                    /\ UNCHANGED outReq
    /\ UNCHANGED <<started, API_KEY, banner, req, body, resp, upSent, upPos, chunk, isStream,
                   clientUp>>

GetResponseFailures == {ExcTimeout, ExcDisconnected, ExcReset}

\* line 74: the status line and the headers of the upstream, or a failure.
\* http.client closes the connection itself when the peer is gone
\* (ConnectionError), not on a timeout
GetResponseFrom(u, rs) ==
    /\ pc[u] = "sent"
    /\ \/ /\ \E r \in rs : resp' = Upd(resp, u, r)
          /\ pc' = Upd(pc, u, "relay_head")
          /\ UNCHANGED <<log, conn, client, closeConn, exc>>
       \/ \E e \in GetResponseFailures :
          /\ conn' = Upd(conn, u, IF e = ExcTimeout THEN "open" ELSE "closed")
          /\ Caught(u, e)
          /\ resp' = resp
    /\ UNCHANGED <<started, API_KEY, banner, req, body, opened, outReq, upSent, upPos, chunk,
                   isStream, clientUp>>

GetResponse(u) == GetResponseFrom(u, Responses)

\* lines 77-90: the status line and the filtered headers reach the caller at
\* end_headers; send_response logs the request line
RelayHead(u) ==
    /\ pc[u] = "relay_head"
    /\ isStream' = Upd(isStream, u, DetectStreaming(resp[u].headers))
    /\ IF clientUp[u]
       THEN /\ log' = Upd(log, u, log[u] \cup {LogRequest(req[u], resp[u].status)})
            /\ client' = Upd(client, u, Append(client[u],
                            HeadItem(resp[u].status,
                                SendResponseHeaders
                                    \o FilterResponseHeaders(resp[u].headers))))
            /\ pc' = Upd(pc, u, IF DetectStreaming(resp[u].headers)
                                THEN "stream_read" ELSE "buffered_read")
            /\ UNCHANGED <<closeConn, exc>>
       ELSE Caught(u, ExcBrokenPipe)
    /\ UNCHANGED <<started, API_KEY, banner, req, body, conn, opened, outReq, resp, upSent,
                   upPos, chunk, clientUp>>

\* the upstream sends one more byte of its body
UpstreamSend(u) ==
    /\ pc[u] \in {"stream_read", "buffered_read"}
    /\ upSent[u] < resp[u].len
    /\ upSent' = Upd(upSent, u, upSent[u] + 1)
    /\ UNCHANGED <<started, API_KEY, banner, log, pc, req, body, conn, opened, outReq, resp,
                   upPos, chunk, isStream, client, clientUp, closeConn, exc>>

\* the bytes response.read(n) returns: it waits until n bytes are there or
\* the body has ended
ReadSize(u, n) == Min(n, upSent[u] - upPos[u])
CanRead(u, n) == upSent[u] - upPos[u] >= n \/ upSent[u] = resp[u].len

\* a read of the body fails while the upstream has not finished: it stalls
\* past the timeout, or the peer goes away
ReadFailures == {ExcTimeout, ExcIncomplete, ExcReset}

\* lines 96-98: chunk = response.read(4096); an empty chunk ends the loop
StreamRead(u) ==
    /\ pc[u] = "stream_read"
    /\ CanRead(u, ChunkSize)
    /\ chunk' = Upd(chunk, u, BodyBytes(upPos[u] + 1, upPos[u] + ReadSize(u, ChunkSize)))
    /\ upPos' = Upd(upPos, u, upPos[u] + ReadSize(u, ChunkSize))
    /\ pc' = Upd(pc, u, IF ReadSize(u, ChunkSize) = 0 THEN "close" ELSE "stream_write")
    /\ UNCHANGED <<started, API_KEY, banner, log, req, body, conn, opened, outReq, resp,
                   upSent, isStream, client, clientUp, closeConn, exc>>

StreamFail(u) ==
    /\ pc[u] = "stream_read"
    /\ ~CanRead(u, ChunkSize)
    /\ \E e \in ReadFailures : Caught(u, e)
    /\ UNCHANGED <<started, API_KEY, banner, reqVars, clientUp>>

\* a loop that drops the chunk: back to the read without the write
StreamWriteDropped(u) ==
    /\ pc[u] = "stream_write"
    /\ pc' = Upd(pc, u, "stream_read")
    /\ UNCHANGED <<started, API_KEY, banner, log, reqVars, client, clientUp,
                   closeConn, exc>>

\* lines 99-100: write the chunk and flush
StreamWrite(u) ==
    /\ pc[u] = "stream_write"
    /\ IF clientUp[u]
       THEN /\ client' = Upd(client, u, Append(client[u], DataItem(chunk[u])))
            /\ pc' = Upd(pc, u, "stream_read")
            /\ UNCHANGED <<log, closeConn, exc>>
       ELSE Caught(u, ExcBrokenPipe)
    /\ UNCHANGED <<started, API_KEY, banner, reqVars, clientUp>>

\* a read that returns what has arrived so far instead of the whole body
BufferedReadEarly(u) ==
    /\ pc[u] = "buffered_read"
    /\ chunk' = Upd(chunk, u, BodyBytes(upPos[u] + 1, upSent[u]))
    /\ upPos' = Upd(upPos, u, upSent[u])
    /\ pc' = Upd(pc, u, "buffered_write")
    /\ UNCHANGED <<started, API_KEY, banner, log, req, body, conn, opened, outReq, resp,
                   upSent, isStream, client, clientUp, closeConn, exc>>

\* line 103, response.read(): the whole body, once the upstream has ended it
BufferedRead(u) ==
    /\ pc[u] = "buffered_read"
    /\ upSent[u] = resp[u].len
    /\ chunk' = Upd(chunk, u, BodyBytes(upPos[u] + 1, upSent[u]))
    /\ upPos' = Upd(upPos, u, upSent[u])
    /\ pc' = Upd(pc, u, "buffered_write")
    /\ UNCHANGED <<started, API_KEY, banner, log, req, body, conn, opened, outReq, resp,
                   upSent, isStream, client, clientUp, closeConn, exc>>

BufferedFail(u) ==
    /\ pc[u] = "buffered_read"
    /\ upSent[u] < resp[u].len
    /\ \E e \in ReadFailures : Caught(u, e)
    /\ UNCHANGED <<started, API_KEY, banner, reqVars, clientUp>>

\* a relay without the else of line 101: the buffered write is followed by
\* the streaming loop
BufferedWriteFallsThrough(u) ==
    /\ pc[u] = "buffered_write"
    /\ IF clientUp[u]
       THEN /\ client' = Upd(client, u, Append(client[u], DataItem(chunk[u])))
            /\ pc' = Upd(pc, u, "stream_read")
            /\ UNCHANGED <<log, closeConn, exc>>
       ELSE Caught(u, ExcBrokenPipe)
    /\ UNCHANGED <<started, API_KEY, banner, reqVars, clientUp>>

\* line 103, self.wfile.write(...)
BufferedWrite(u) ==
    /\ pc[u] = "buffered_write"
    /\ IF clientUp[u]
       THEN /\ client' = Upd(client, u, Append(client[u], DataItem(chunk[u])))
            /\ pc' = Upd(pc, u, "close")
            /\ UNCHANGED <<log, closeConn, exc>>
       ELSE Caught(u, ExcBrokenPipe)
    /\ UNCHANGED <<started, API_KEY, banner, reqVars, clientUp>>

\* line 105: reached only when nothing above raised
CloseConn(u) ==
    /\ pc[u] = "close"
    /\ conn' = Upd(conn, u, "closed")
    /\ pc' = Upd(pc, u, "done")
    /\ UNCHANGED <<started, API_KEY, banner, log, req, body, opened, outReq, resp, upSent,
                   upPos, chunk, isStream, client, clientUp, closeConn, exc>>

(***************************************************************************)
(* The end of a request and of a thread.                                   *)
(***************************************************************************)
\* the handler has returned: the next request of a kept-alive connection,
\* or the end of the thread and shutdown_request (line 153)
Finish(u) ==
    /\ pc[u] = "done"
    /\ ResetRequest(u)
    /\ IF closeConn[u] \/ ~clientUp[u]
       THEN /\ pc' = Upd(pc, u, "idle")
            /\ clientUp' = Upd(clientUp, u, FALSE)
       ELSE /\ pc' = Upd(pc, u, "accepted")
            /\ clientUp' = clientUp
    /\ closeConn' = Upd(closeConn, u, FALSE)
    /\ log' = Upd(log, u, {})
    /\ UNCHANGED <<started, API_KEY, banner>>

\* lines 148-153: an exception that left the handler is reported by
\* handle_error, with the text of the exception, and the socket is shut down
ThreadCrash(u) ==
    /\ pc[u] = "crashed"
    /\ log' = Upd(log, u, {<<"Exception occurred during processing of request: ">>
                             \o exc[u].text})
    /\ ResetRequest(u)
    /\ pc' = Upd(pc, u, "idle")
    /\ clientUp' = Upd(clientUp, u, FALSE)
    /\ closeConn' = Upd(closeConn, u, FALSE)
    /\ UNCHANGED <<started, API_KEY, banner>>

\* the caller closed a kept-alive connection: the thread ends
ThreadEnd(u) ==
    /\ pc[u] = "accepted"
    /\ ~clientUp[u]
    /\ pc' = Upd(pc, u, "idle")
    /\ UNCHANGED <<started, API_KEY, banner, log, reqVars, client, clientUp, closeConn, exc>>

Next ==
    \/ Main
    \/ \E u \in Units :
        \/ Accept(u)
        \/ Receive(u)
        \/ ClientDrop(u)
        \/ DoOptions(u)
        \/ ReadBody(u)
        \/ Forward(u)
        \/ GetResponse(u)
        \/ RelayHead(u)
        \/ UpstreamSend(u)
        \/ StreamRead(u)
        \/ StreamFail(u)
        \/ StreamWrite(u)
        \/ BufferedRead(u)
        \/ BufferedFail(u)
        \/ BufferedWrite(u)
        \/ CloseConn(u)
        \/ Finish(u)
        \/ ThreadCrash(u)
        \/ ThreadEnd(u)

Spec == Init /\ [][Next]_vars

(***************************************************************************)
(* The header specification: one unit, every list of at most MaxHeaders    *)
(* inbound headers, every credential, up to the sending of the request.    *)
(***************************************************************************)
HeaderPairs ==
    { <<"Host", <<"localhost:3129">>>>, <<"host", <<"evil">>>>,
      <<"x-api-key", <<>>>>, <<"x-api-key", <<"a">>>>,
      <<"X-Api-Key", <<>>>>, <<"X-Api-Key", <<"a">>>>,
      <<"Transfer-Encoding", <<"chunked">>>>,
      <<"Accept", <<"a">>>>, <<"Accept", <<"b">>>>, <<"accept", <<"a">>>> }

HeaderLists == UNION {[1..k -> HeaderPairs] : k \in 0..MaxHeaders}

HdrRequests ==
    { [method |-> m, path |-> <<"/", "v1/messages">>, headers |-> hs, payload |-> <<>>] :
        m \in {"GET", "POST"}, hs \in HeaderLists }

ReceiveHdr(u) == ReceiveFrom(u, HdrRequests)

InitHdr ==
    /\ started = FALSE
    /\ API_KEY \in {NoKey, NormalKey, BrokenKey}
    /\ banner = {}
    /\ InitUnits

NextHdr ==
    \/ Main
    \/ Accept(1)
    \/ ReceiveHdr(1)
    \/ ReadBody(1)
    \/ Forward(1)

SpecHdr == InitHdr /\ [][NextHdr]_vars

(***************************************************************************)
(* The round-trip specification: one unit, GET and POST with every target, *)
(* every payload of at most MaxBody bytes and every declared length (or    *)
(* none), up to the sending of the request.                                *)
(***************************************************************************)
RtTargets ==
    { <<"/", "v1/models">>,
      <<"/", "v1/messages", "?beta=true&x=%20">>,
      <<"/", "/", "v1/models">> }

RtPayloads == UNION {[1..k -> {0, 255}] : k \in 0..MaxBody}

RtHeaders ==
    {<<LocalHost>>}
    \cup {<<LocalHost, <<"Content-Length", <<ToString(n)>>>>>> : n \in 0..MaxBody}

RtRequests ==
    { [method |-> m, path |-> t, headers |-> hs, payload |-> p] :
        m \in {"GET", "POST"}, t \in RtTargets, hs \in RtHeaders, p \in RtPayloads }

ReceiveRt(u) == ReceiveFrom(u, RtRequests)

InitRt ==
    /\ started = FALSE
    /\ API_KEY \in {NoKey, NormalKey}
    /\ banner = {}
    /\ InitUnits

NextRt ==
    \/ Main
    \/ Accept(1)
    \/ ReceiveRt(1)
    \/ ClientDrop(1)
    \/ ReadBody(1)
    \/ Forward(1)

SpecRt == InitRt /\ [][NextRt]_vars

\* the start with the one credential that gives no trouble
InitIso ==
    /\ started = FALSE
    /\ API_KEY = NormalKey
    /\ banner = {}
    /\ InitUnits

(***************************************************************************)
(* The response specification: one unit, the requests of the lifecycle     *)
(* specification, and an upstream response with either status and every    *)
(* list of at most MaxHeaders headers, relayed to its end.                 *)
(***************************************************************************)
RespPairs ==
    { <<"Content-Type", <<"application/json">>>>,
      <<"content-type", <<"text/event-stream", "; charset=utf-8">>>>,
      <<"CONTENT-TYPE", <<"text/event-stream">>>>,
      <<"X-Content-Type", <<"text/event-stream">>>>,
      <<"Transfer-Encoding", <<"chunked">>>>,
      <<"CONNECTION", <<"keep-alive">>>>,
      <<"Date", <<"then">>>>,
      <<"X-Request-Id", <<"a">>>> }

RespHeaderLists == UNION {[1..k -> RespPairs] : k \in 0..MaxHeaders}

RespResponses ==
    { [status |-> st, headers |-> hs, len |-> 1] :
        st \in {200, 404}, hs \in RespHeaderLists }

ReceiveResp(u) == ReceiveFrom(u, Requests)
GetResponseResp(u) == GetResponseFrom(u, RespResponses)

NextResp ==
    \/ Main
    \/ Accept(1)
    \/ ReceiveResp(1)
    \/ DoOptions(1)
    \/ ReadBody(1)
    \/ Forward(1)
    \/ GetResponseResp(1)
    \/ RelayHead(1)
    \/ UpstreamSend(1)
    \/ StreamRead(1)
    \/ StreamFail(1)
    \/ StreamWrite(1)
    \/ BufferedRead(1)
    \/ BufferedFail(1)
    \/ BufferedWrite(1)
    \/ CloseConn(1)
    \/ Finish(1)
    \/ ThreadCrash(1)
    \/ ThreadEnd(1)
    \/ ClientDrop(1)

SpecResp == InitIso /\ [][NextResp]_vars

(***************************************************************************)
(* The concurrency specification: the two units with every interleaving of *)
(* their steps and every failure, over fewer inputs: one credential, a GET *)
(* and a pre-flight, and upstream bodies that are empty or one byte longer *)
(* than a streaming read.                                                  *)
(***************************************************************************)
IsoRequests == {r \in Requests : r.method \in {"GET", "OPTIONS"}}

IsoResponses ==
    { [status |-> 200, headers |-> hs, len |-> n] :
        hs \in {JsonHeaders, SseHeaders}, n \in {0, ChunkSize + 1} }

ReceiveIso(u) == ReceiveFrom(u, IsoRequests)
GetResponseIso(u) == GetResponseFrom(u, IsoResponses)

\* the next step of the thread of unit u, whatever it is
UnitStep(u) ==
    \/ ReceiveIso(u)
    \/ DoOptions(u)
    \/ ReadBody(u)
    \/ Forward(u)
    \/ GetResponseIso(u)
    \/ RelayHead(u)
    \/ StreamRead(u)
    \/ StreamFail(u)
    \/ StreamWrite(u)
    \/ BufferedRead(u)
    \/ BufferedFail(u)
    \/ BufferedWrite(u)
    \/ CloseConn(u)
    \/ Finish(u)
    \/ ThreadCrash(u)
    \/ ThreadEnd(u)

NextIso ==
    \/ Main
    \/ \E u \in Units :
        \/ Accept(u)
        \/ ClientDrop(u)
        \/ UpstreamSend(u)
        \/ UnitStep(u)

SpecIso == InitIso /\ [][NextIso]_vars

\* the same with the scheduling of threads: a thread that can take its next
\* step takes it in the end (a blocked upstream read ends by data, by the
\* end of the stream, or by the timeout of line 58)
SpecLive == SpecIso /\ \A u \in Units : WF_vars(UnitStep(u))

(***************************************************************************)
(* Vocabulary of the properties.                                           *)
(***************************************************************************)
\* the positions of the headers of hs whose name is lname in lower case
Named(hs, lname) == {i \in 1..Len(hs) : Lower(hs[i][1]) = lname}
HasHeader(hs, lname) == Named(hs, lname) # {}
MaxOf(S) == CHOOSE i \in S : \A j \in S : j <= i
MinOf(S) == CHOOSE i \in S : \A j \in S : i <= j

\* a request of unit u has been handed to the upstream
Sent(u) == outReq[u].sent

(***************************************************************************)
(* C1: with a non-empty credential configured and no x-api-key header (in  *)
(* any letter case) in the inbound request, the request sent upstream      *)
(* carries x-api-key exactly once, with the configured credential.         *)
(***************************************************************************)
C1_CredentialInjected ==
    \A u \in Units :
        (Sent(u) /\ API_KEY # <<>> /\ ~HasHeader(req[u].headers, "x-api-key"))
        => /\ Cardinality(Named(outReq[u].headers, "x-api-key")) = 1
           /\ \A i \in Named(outReq[u].headers, "x-api-key") :
                outReq[u].headers[i][2] = API_KEY

C1_Witness ==
    \E u \in Units :
        /\ Sent(u) /\ API_KEY # <<>> /\ ~HasHeader(req[u].headers, "x-api-key")
        /\ Len(req[u].headers) >= 2

(***************************************************************************)
(* C2: when the inbound request carries x-api-key, in any letter case and  *)
(* with any value (the empty one included), every x-api-key header sent    *)
(* upstream is one of the caller's, value unmodified, and the configured   *)
(* credential is sent upstream in no header.                               *)
(***************************************************************************)
C2_CallerKeyPreserved ==
    \A u \in Units :
        (Sent(u) /\ HasHeader(req[u].headers, "x-api-key"))
        => /\ \A i \in Named(outReq[u].headers, "x-api-key") :
                \E j \in Named(req[u].headers, "x-api-key") :
                    outReq[u].headers[i] = req[u].headers[j]
           /\ HasHeader(outReq[u].headers, "x-api-key")
           /\ API_KEY # <<>> =>
                \A i \in 1..Len(outReq[u].headers) : outReq[u].headers[i][2] # API_KEY

(***************************************************************************)
(* C8, as claimed: compared case-insensitively with the last value winning *)
(* on duplicates, the headers sent upstream are the inbound headers minus  *)
(* host and transfer-encoding, plus Host with the fixed upstream host.     *)
(***************************************************************************)
\* a header list read as a case-insensitive mapping, last value wins
CILast(hs) ==
    [n \in {Lower(hs[i][1]) : i \in 1..Len(hs)} |-> hs[MaxOf(Named(hs, n))][2]]

\* the inbound headers outside the skip-set, in order
KeptIdx(hs) == {i \in 1..Len(hs) : Lower(hs[i][1]) \notin {"host", "transfer-encoding"}}

RECURSIVE Kept(_)
Kept(hs) ==
    IF hs = <<>> THEN <<>>
    ELSE IF Lower(Head(hs)[1]) \in {"host", "transfer-encoding"}
         THEN Kept(Tail(hs))
         ELSE <<Head(hs)>> \o Kept(Tail(hs))

Spelled(hs, name) == {i \in 1..Len(hs) : hs[i][1] = name}

InjectionExpected(hs) ==
    /\ API_KEY # <<>>
    /\ \/ ~HasHeader(hs, "x-api-key")
       \/ hs[MinOf(Named(hs, "x-api-key"))][2] = <<>>
    /\ Spelled(hs, "x-api-key") = {}

ExpectedUpstream(hs) ==
    {<<"Host", <<"api.anthropic.com">>>>}
    \cup {<<hs[i][1], hs[MaxOf(Spelled(hs, hs[i][1]))][2]>> : i \in KeptIdx(hs)}
    \cup (IF InjectionExpected(hs) THEN {<<"x-api-key", API_KEY>>} ELSE {})

Over(u) == pc[u] \in {"done", "crashed"}

\* the status lines written to the caller of unit u
StatusLines(u) == {i \in 1..Len(client[u]) : client[u][i].kind \in {"head", "error"}}

\* the body bytes written to the caller of unit u, in order
RECURSIVE DataOf(_)
DataOf(items) ==
    IF items = <<>> THEN <<>>
    ELSE (IF Head(items).kind = "data" THEN Head(items).data ELSE <<>>)
         \o DataOf(Tail(items))

\* every line written to stderr so far, and every error message sent
AllLogLines == banner \cup UNION {log[u] : u \in Units}
ErrorMessages ==
    UNION {{client[u][i].msg : i \in {j \in 1..Len(client[u]) : client[u][j].kind = "error"}}
            : u \in Units}

\* the text shows the credential: as it is, or with its line breaks
\* written as escapes and every other character as it is
Shows(text, key) == IsSub(key, text) \/ IsSub(Escaped(key), text)

(***************************************************************************)
(* C3: no line written to stderr and no error message sent to a caller     *)
(* contains the configured credential, whether as it is or with its line   *)
(* breaks written as escapes.                                              *)
(***************************************************************************)
C3_CredentialNeverShown ==
    API_KEY # <<>> =>
        \A text \in AllLogLines \cup ErrorMessages : ~Shows(text, API_KEY)

(***************************************************************************)
(* C4: when the upstream refuses the connection, or the network fails in   *)
(* another way while the upstream connection is set up or used, and no     *)
(* response byte has been written yet, the caller receives status 502.     *)
(***************************************************************************)
NetworkFailures ==
    {"ConnectionRefusedError", "ConnectionResetError", "RemoteDisconnected", "SSLError"}

C4_NetworkFailureGives502 ==
    \A u \in Units :
        (pc[u] = "done" /\ exc[u].cls \in NetworkFailures /\ Len(client[u]) = 1)
        => client[u][1].kind = "error" /\ client[u][1].code = 502

(***************************************************************************)
(* C5: when the upstream does not answer within the timeout of the         *)
(* connection, on connect or while the response is awaited, and nothing    *)
(* has been written to the caller yet, the caller receives status 504 and  *)
(* nothing else; the step that ends the request changes nothing of any     *)
(* other unit, nor of the listener.                                        *)
(***************************************************************************)
TimedOutEarly(u) ==
    /\ pc[u] = "done"
    /\ exc[u].cls = "TimeoutError"
    /\ \A i \in 1..Len(client[u]) : client[u][i].kind = "error"

SameUnit(v) ==
    /\ pc'[v] = pc[v] /\ req'[v] = req[v] /\ body'[v] = body[v] /\ conn'[v] = conn[v]
    /\ opened'[v] = opened[v] /\ outReq'[v] = outReq[v] /\ resp'[v] = resp[v]
    /\ upSent'[v] = upSent[v] /\ upPos'[v] = upPos[v] /\ chunk'[v] = chunk[v]
    /\ isStream'[v] = isStream[v] /\ client'[v] = client[v]
    /\ clientUp'[v] = clientUp[v] /\ closeConn'[v] = closeConn[v]
    /\ exc'[v] = exc[v] /\ log'[v] = log[v]

C5_TimeoutGives504 ==
    /\ [](\A u \in Units :
            TimedOutEarly(u) =>
                /\ Len(client[u]) = 1
                /\ client[u][1].code = 504)
    /\ [][\A u \in Units :
            (exc[u].cls # "TimeoutError" /\ exc'[u].cls = "TimeoutError")
            => /\ started' = started
               /\ \A v \in Units \ {u} : SameUnit(v)]_vars

C5_Witness ==
    \E u \in Units :
        /\ TimedOutEarly(u)
        /\ outReq[u].sent
        /\ \E v \in Units \ {u} : pc[v] \in {"stream_read", "stream_write"}

(***************************************************************************)
(* C6: no request ends with its upstream connection still open.            *)
(***************************************************************************)
C6_ConnectionClosedOnEveryExit ==
    \A u \in Units : Over(u) => conn[u] # "open"

(***************************************************************************)
(* C7: at most one status line is ever written to the caller of a request: *)
(* once the status line and headers of the real response are written, no   *)
(* formatted error response follows.                                       *)
(***************************************************************************)
C7_AtMostOneStatusLine ==
    \A u \in Units : Cardinality(StatusLines(u)) <= 1

(***************************************************************************)
(* C9: an OPTIONS request never opens an upstream connection, and once it  *)
(* has been answered the caller holds one response, status 200, with each  *)
(* of the three CORS headers exactly once and with the value given, and    *)
(* the request is over.                                                    *)
(***************************************************************************)
C9_PreflightAnsweredLocally ==
    \A u \in Units :
        req[u].method = "OPTIONS" =>
            /\ opened[u] = 0 /\ conn[u] = "none" /\ ~outReq[u].sent
            /\ pc[u] \in {"received", "done", "crashed"}
            /\ pc[u] = "done" =>
                /\ Len(client[u]) = 1
                /\ client[u][1].kind = "head"
                /\ client[u][1].code = 200
                /\ LET hs == client[u][1].headers
                       cors == {i \in 1..Len(hs) :
                                  Lower(hs[i][1]) \in
                                    {"access-control-allow-origin",
                                     "access-control-allow-methods",
                                     "access-control-allow-headers"}}
                   IN  /\ {hs[i] : i \in cors} =
                            { <<"Access-Control-Allow-Origin", <<"*">>>>,
                              <<"Access-Control-Allow-Methods", <<"GET, POST, OPTIONS">>>>,
                              <<"Access-Control-Allow-Headers", <<"*">>>> }
                       /\ Cardinality(cors) = 3
            /\ pc[u] = "crashed" => client[u] = <<>> /\ ~clientUp[u]

C9_Witness ==
    \E u \in Units : req[u].method = "OPTIONS" /\ pc[u] = "done" /\ Len(client[u]) = 1

HasMarker(hs) ==
    \E i \in 1..Len(hs) :
        /\ hs[i][1] \in {"Content-Type", "content-type", "CONTENT-TYPE"}
        /\ \E j \in 1..Len(hs[i][2]) : hs[i][2][j] = "text/event-stream"

\* the positions of the body writes to the caller of unit u
DataWrites(u) == {i \in 1..Len(client[u]) : client[u][i].kind = "data"}

\* the status line and headers of the upstream have been relayed
HeadRelayed(u) ==
    /\ req[u].method \in {"GET", "POST"}
    /\ Len(client[u]) >= 1
    /\ client[u][1].kind = "head"

(***************************************************************************)
(* C11: for an upstream response without the event-stream marker, the body *)
(* reaches the caller in at most one write, made only after the upstream   *)
(* has sent its whole body, holding exactly the upstream's bytes in order; *)
(* and a request that got as far as closing the upstream connection has    *)
(* made exactly that one write.                                            *)
(***************************************************************************)
C11_BufferedRelay ==
    \A u \in Units :
        (HeadRelayed(u) /\ ~HasMarker(resp[u].headers)) =>
            /\ Cardinality(DataWrites(u)) <= 1
            /\ \A i \in DataWrites(u) :
                 /\ i = 2
                 /\ upSent[u] = resp[u].len
                 /\ client[u][i].data = [k \in 1..resp[u].len |-> k]
            /\ (pc[u] = "close" \/ (pc[u] = "done" /\ exc[u].cls = "none"))
                 => Cardinality(DataWrites(u)) = 1

\* the whole body of a buffered response has reached the caller
C11_Witness ==
    \E u \in Units :
        /\ HeadRelayed(u) /\ ~HasMarker(resp[u].headers)
        /\ pc[u] = "done" /\ exc[u].cls = "none"
        /\ resp[u].len >= 2
        /\ DataOf(client[u]) = [k \in 1..resp[u].len |-> k]


(***************************************************************************)
(* C12: the units are isolated.  Every step changes the state of at most   *)
(* one unit, so neither a failure nor anything else one unit does changes  *)
(* what a sibling holds or what its caller receives; the listener, once    *)
(* started, stays up; and while a unit waits for the upstream (connecting, *)
(* awaiting the response, or reading a body that has not arrived) the      *)
(* listener can still hand a new connection to a free unit, and a sibling  *)
(* in the middle of a request can still take its next step.                *)
(***************************************************************************)
\* unit u waits for the upstream
Blocked(u) ==
    \/ pc[u] \in {"build", "sent"}
    \/ pc[u] = "stream_read" /\ upSent[u] - upPos[u] < ChunkSize /\ upSent[u] < resp[u].len
    \/ pc[u] = "buffered_read" /\ upSent[u] < resp[u].len

C12_UnitsIsolated ==
    /\ [](\A u \in Units :
            Blocked(u) =>
                \A v \in Units \ {u} :
                    /\ (started /\ pc[v] = "idle") => ENABLED Accept(v)
                    /\ (pc[v] # "idle" /\ (pc[v] = "accepted" => clientUp[v]))
                         => ENABLED UnitStep(v))
    /\ [][/\ started => started'
          /\ \A u \in Units :
                ~SameUnit(u) => \A v \in Units \ {u} : SameUnit(v)]_vars

\* one unit has failed with a 502 while its sibling, which was relaying a
\* stream all along, holds part of its body
C12_Witness ==
    \E u \in Units :
        /\ pc[u] = "done" /\ exc[u].cls = "RemoteDisconnected"
        /\ \E v \in Units \ {u} :
            /\ pc[v] = "stream_read" /\ Blocked(v)
            /\ DataOf(client[v]) # <<>>


(***************************************************************************)
(* C13: the request sent upstream has the method and the target (path and  *)
(* query string) of the inbound request, unchanged; with a Content-Length  *)
(* header declaring n bytes, of which the caller sent at least n, its body *)
(* is the first n bytes of what the caller sent (the whole payload when n  *)
(* is its length); without a Content-Length header it has no body.         *)
(***************************************************************************)
\* the length the inbound request declares, as a set of at most one number
Declared(r) ==
    {n \in 0..Len(r.payload) :
        \E i \in 1..Len(r.headers) :
            r.headers[i] = <<"Content-Length", <<ToString(n)>>>>}

C13_BodyRoundTrip ==
    \A u \in Units :
        Sent(u) =>
            /\ outReq[u].method = req[u].method
            /\ ~HasHeader(req[u].headers, "content-length") => outReq[u].body = <<>>
            /\ \A n \in Declared(req[u]) :
                 /\ outReq[u].body = <<[i \in 1..n |-> req[u].payload[i]]>>
                 /\ n = Len(req[u].payload) => outReq[u].body = <<req[u].payload>>

C13_RequestRoundTrip ==
    /\ C13_BodyRoundTrip
    /\ \A u \in Units : Sent(u) => outReq[u].path = req[u].path


(***************************************************************************)
(* C14: once the status line and headers of the upstream have been relayed *)
(* the caller holds the upstream's status code, and as headers exactly the *)
(* upstream's, in order and with duplicates, minus those named             *)
(* transfer-encoding or connection in any letter case: no header is added. *)
(***************************************************************************)
RECURSIVE MinusStripped(_)
MinusStripped(hs) ==
    IF hs = <<>> THEN <<>>
    ELSE IF Head(hs)[1] \in {"Transfer-Encoding", "Connection", "CONNECTION"}
         THEN MinusStripped(Tail(hs))
         ELSE <<Head(hs)>> \o MinusStripped(Tail(hs))

C14_StatusRelayed ==
    \A u \in Units :
        HeadRelayed(u) => client[u][1].code = resp[u].status

C14_ResponseHeadVerbatim ==
    /\ C14_StatusRelayed
    /\ \A u \in Units :
        HeadRelayed(u) => client[u][1].headers = MinusStripped(resp[u].headers)


(***************************************************************************)
(* C15: with no credential configured (unset or empty) the proxy adds no   *)
(* x-api-key header: every x-api-key header sent upstream is one of the    *)
(* caller's, name and value as the caller gave them, there is one when the *)
(* caller gave one, and there is none when the caller gave none.           *)
(***************************************************************************)
C15_NoCredentialNoInjection ==
    \A u \in Units :
        (Sent(u) /\ API_KEY = <<>>) =>
            /\ \A i \in 1..Len(outReq[u].headers) :
                 outReq[u].headers[i][1] \in {"x-api-key", "X-Api-Key"} =>
                    \E j \in 1..Len(req[u].headers) :
                        outReq[u].headers[i] = req[u].headers[j]
            /\ (\E j \in 1..Len(req[u].headers) :
                    req[u].headers[j][1] \in {"x-api-key", "X-Api-Key"})
               <=> (\E i \in 1..Len(outReq[u].headers) :
                    outReq[u].headers[i][1] \in {"x-api-key", "X-Api-Key"})

\* no credential, and a caller that sent its own, first empty and then not
C15_Witness ==
    \E u \in Units :
        /\ Sent(u) /\ API_KEY = <<>>
        /\ Len(req[u].headers) >= 2
        /\ req[u].headers[1] = <<"X-Api-Key", <<>>>>
        /\ req[u].headers[2] = <<"x-api-key", <<"a">>>>


(***************************************************************************)
(* C16: a GET or POST that fails before anything of a response has been    *)
(* written, while its caller is still there, ends with exactly one error   *)
(* response written to that caller and with the handler returning          *)
(* normally: 502 for a protocol, network or TLS failure of the upstream,   *)
(* 504 for a timeout, 500 for anything else, the failure to parse the      *)
(* length header included.                                                 *)
(***************************************************************************)
\* the status the claim assigns to a failure of class cls
ClaimedStatus(cls) ==
    IF cls \in {"RemoteDisconnected", "IncompleteRead", "SSLError",
                "ConnectionRefusedError", "ConnectionResetError"}
    THEN 502
    ELSE IF cls = "TimeoutError" THEN 504
    ELSE 500

\* the request of unit u failed with nothing of the real response written
FailedEarly(u) ==
    /\ req[u].method \in {"GET", "POST"}
    /\ Over(u)
    /\ exc[u].cls # "none"
    /\ \A i \in 1..Len(client[u]) : client[u][i].kind = "error"
    /\ clientUp[u]

C16_EveryFailureAnswered ==
    \A u \in Units :
        FailedEarly(u) =>
            /\ pc[u] = "done"
            /\ Len(client[u]) = 1
            /\ client[u][1].code = ClaimedStatus(exc[u].cls)


Phase(p, streaming) ==
    CASE p \in {"idle", "accepted"} -> "None"
      [] p = "received" -> "Received"
      [] p \in {"build", "sent", "relay_head"} -> "Forwarding"
      [] p \in {"stream_read", "stream_write"} -> "StreamingRelay"
      [] p \in {"buffered_read", "buffered_write"} -> "BufferedRelay"
      [] p = "close" -> (IF streaming THEN "StreamingRelay" ELSE "BufferedRelay")
      [] p \in {"done", "crashed"} -> "Closed"

PhaseSteps ==
    { <<"None", "Received">>,
      <<"Received", "Forwarding">>, <<"Received", "Closed">>,
      <<"Forwarding", "StreamingRelay">>, <<"Forwarding", "BufferedRelay">>,
      <<"Forwarding", "Closed">>,
      <<"StreamingRelay", "Closed">>, <<"BufferedRelay", "Closed">>,
      <<"Closed", "None">> }

InRelay(u) ==
    pc[u] \in {"stream_read", "stream_write", "buffered_read", "buffered_write", "close"}

C18_RequestPaths ==
    /\ [](\A u \in Units :
            /\ InRelay(u) =>
                 /\ resp[u].status # 0
                 /\ Len(client[u]) >= 1 /\ client[u][1].kind = "head"
            /\ pc[u] \in {"stream_read", "stream_write"} => isStream[u]
            /\ pc[u] \in {"buffered_read", "buffered_write"} => ~isStream[u]
            /\ pc[u] \in {"idle", "accepted", "received", "build", "sent", "relay_head"}
                 => DataWrites(u) = {}
            /\ (\E i \in 1..Len(client[u]) : client[u][i].kind \in {"head", "data"})
                 => (req[u].method = "OPTIONS" \/ resp[u].status # 0)
            /\ req[u].method = "OPTIONS" => pc[u] \in {"received", "done", "crashed"})
    /\ [][\A u \in Units :
            LET a == Phase(pc[u], isStream[u])
                b == Phase(pc'[u], isStream'[u])
            IN  /\ a # b => <<a, b>> \in PhaseSteps
                /\ (InRelay(u) /\ InRelay(u)') => isStream'[u] = isStream[u]
                /\ (a = "Received" /\ b = "Closed" /\ exc'[u].cls = "none")
                     => req[u].method = "OPTIONS"
                /\ (a = "Received" /\ b = "Forwarding") => req[u].method # "OPTIONS"]_vars


\* a streamed response has been relayed to its end, and the upstream
\* connection is about to be closed
C18_Witness ==
    \E u \in Units :
        /\ pc[u] = "close" /\ isStream[u]
        /\ resp[u].status = 404
        /\ DataOf(client[u]) = <<1>>


(***************************************************************************)
(* C19: every request that has been received is over in the end; the       *)
(* streaming loop goes on to a write after a read that returned bytes and  *)
(* leaves for the close after the first read that returned none; and when  *)
(* a request is left behind (its handler returned or raised and the thread *)
(* goes on or ends) its upstream connection is not open any more, and when *)
(* the thread ends the caller's connection is torn down too.               *)
(***************************************************************************)
C19_Terminates ==
    \A u \in Units : (pc[u] = "received") ~> Over(u)

C19_LoopStops ==
    [][\A u \in Units :
        pc[u] = "stream_read" =>
            /\ pc'[u] = "stream_write" => chunk'[u] # <<>>
            /\ pc'[u] = "close" => chunk'[u] = <<>>
            /\ (pc'[u] \in {"stream_write", "close"} /\ upPos[u] = resp[u].len)
                 => pc'[u] = "close"]_vars

C19_TornDown ==
    [][\A u \in Units :
        /\ (Over(u) /\ ~Over(u)') => conn[u] # "open"
        /\ (pc[u] # "idle" /\ pc'[u] = "idle") => ~clientUp'[u]]_vars

C19_EveryRequestCloses ==
    /\ C19_Terminates
    /\ C19_LoopStops
    /\ C19_TornDown


(***************************************************************************)
(* C20: once the relay of a body has begun, the request is in the          *)
(* streaming mode exactly when some header of the upstream response named  *)
(* content-type, in any letter case, has a value that contains             *)
(* text/event-stream; whatever the request, the status and the other       *)
(* headers are.                                                            *)
(***************************************************************************)
C20_StreamingIffMarker ==
    \A u \in Units :
        InRelay(u) =>
            /\ isStream[u] <=> HasMarker(resp[u].headers)
            /\ pc[u] \in {"stream_read", "stream_write"} <=>
                 (pc[u] # "close" /\ HasMarker(resp[u].headers))

\* a 404 answer to a POST is streamed: its second content-type header, in
\* capitals, carries the marker, the first does not
C20_Witness ==
    \E u \in Units :
        /\ pc[u] = "stream_write"
        /\ req[u].method = "POST"
        /\ resp[u].status = 404
        /\ Len(resp[u].headers) >= 2
        /\ resp[u].headers[1] = <<"Content-Type", <<"application/json">>>>
        /\ resp[u].headers[2] = <<"CONTENT-TYPE", <<"text/event-stream">>>>


====
